---- MODULE Spec2Model ----
(***************************************************************************)
(* State-machine model of EasyClangComplete.py: the event listener that    *)
(* forwards host events to the completion subsystem and reconciles the     *)
(* results of thread-pool tasks with the current job id.                   *)
(*                                                                         *)
(* Threads: the host's GUI thread runs on_query_completions, on_close and  *)
(* on_selection_modified one at a time (variable ui); the host's async     *)
(* thread runs the *_async handlers; the pool's workers run the submitted  *)
(* tasks and, after a task finished, its done-callbacks.  A handler that   *)
(* touches shared state more than once is split at those accesses.         *)
(***************************************************************************)
EXTENDS Integers, Sequences, FiniteSets, TLC

\* ---- bounds of the model ----
NumViews == 1
MaxPos == 1
MaxTasks == 2

\* ---- program constants ----
PoolWorkers == 4

Views == 1 .. NumViews
AllViews == 0 .. NumViews
Locations == 1 .. MaxPos
PrefixLens == 0 .. 1
None == << >>
NoView == -1

VARIABLES
    current_job_id,       \* EasyClangComplete.current_job_id
    current_completions,  \* EasyClangComplete.current_completions
    active_view,          \* sublime.active_window().active_view()
    configs,              \* cache of the view config manager, per view
    futures,              \* futures returned by thread_pool.submit, in order
    cb,                   \* per future: the activation of its done-callback
    ui,                   \* the GUI thread: handler, position in it, locals
    lastRet,              \* what the handler that just ended returned
    closeEv,              \* what the on_close that just ended submitted
    popup                 \* the host's auto-complete popup: requests to
                          \* re-open it, and the request being served

vars == << current_job_id, current_completions, active_view, configs, futures,
           cb, ui, lastRet, closeEv, popup >>

\* ---- collaborators of the listener ----

\* Tools.is_valid_view: view 0 stands for a view the plugin does not serve.
is_valid_view(view) == view \in Views

\* tools.CompletionRequest(view, trigger_pos)
CompletionRequest(view, trigger_pos) == [view |-> view, pos |-> trigger_pos]

\* CompletionRequest.get_identifier: built from (view, position)
get_identifier(request) == << request.view, request.pos >>

\* CompletionRequest.is_suitable_for_view
is_suitable_for_view(request, view) == request.view = view

SHOW_DEFAULT_COMPLETIONS == [kind |-> "SHOW", comps |-> << >>, hide |-> FALSE]
HIDE_DEFAULT_COMPLETIONS == [kind |-> "HIDE", comps |-> << >>, hide |-> TRUE]
RAISED == [kind |-> "RAISED", comps |-> << >>, hide |-> FALSE]
NoReturn == [kind |-> "NONE", comps |-> << >>, hide |-> FALSE]

\* SublBridge.format_completions(completions, hide_default_completions)
format_completions(completions, hide) ==
    [kind |-> "COMPLETIONS", comps |-> completions, hide |-> hide]

PosStatus == {"WRONG_TRIGGER", "COMPLETION_NOT_NEEDED", "TRIGGERED"}

\* what completer.complete computes for a request: nothing, or one completion
\* that carries the identifier of the request it was computed for
Completions(request, nonempty) ==
    IF nonempty THEN << get_identifier(request) >> ELSE << >>

\* ---- concurrent.futures.Future as the listener uses it ----

\* Future.done(): true for a cancelled future and for a finished one
FutureDone(f) == f.state \in {"CANCELLED", "FINISHED"}

\* Future.cancelled()
FutureCancelled(f) == f.state = "CANCELLED"

\* Future.result() on a done future raises for a cancelled future and for a
\* task that ended with an exception
ResultRaises(f) == f.state = "CANCELLED" \/ f.outcome = "exception"

\* workers that run a task or the done-callback of the task they ran
BusyWorkers ==
    Cardinality({t \in 1 .. Len(futures) :
        \/ futures[t].state = "RUNNING"
        \/ cb[t].thr = "pool" /\ cb[t].pc \notin {"none", "over"}})

\* a done-callback that has not been invoked
NoCb == [pc |-> "none", thr |-> "none", av |-> NoView, res |-> "none",
         popup |-> FALSE, mismatch |-> FALSE]

\* a done-callback that has returned
OverCb == [NoCb EXCEPT !.pc = "over"]

NewFuture(kind, view, pos) ==
    [kind |-> kind, view |-> view, pos |-> pos, state |-> "PENDING",
     outcome |-> "none", comps |-> << >>, hasCb |-> FALSE, later |-> FALSE]

\* a future nothing refers to any more
Collected(f) == [NewFuture("over", NoView, 0) EXCEPT !.state = "FINISHED"]

UiIdle == [pc |-> "idle", view |-> NoView, pos |-> 0, vc |-> "none",
           fut |-> 0]

UiReturned == [UiIdle EXCEPT !.pc = "ret"]

NoReturns == [ret |-> NoReturn, id |-> None, status |-> "NONE",
              hide |-> FALSE]

NoCloseEv == [view |-> NoView, subs |-> 0, cbs |-> 0]

\* SublBridge.show_auto_complete(view) as the host keeps it: the view, and
\* with it the identifier of the request whose callback asked and whether
\* that callback had stored a non-empty list
NoPopupRequest == [view |-> NoView, id |-> None, stored |-> FALSE]

NoPopup == [pending |-> {}, serving |-> NoPopupRequest]

\* the identifiers of the requests on_query_completions can build
Identifiers ==
    {get_identifier(CompletionRequest(v, l - p)) :
        v \in Views, l \in Locations, p \in PrefixLens}

PopupRequests == [view : AllViews, id : Identifiers, stored : BOOLEAN]

Init ==
    /\ current_job_id = None
    /\ current_completions = << >>
    /\ active_view \in AllViews
    /\ configs = [v \in Views |-> "none"]
    /\ futures = << >>
    /\ cb = << >>
    /\ ui = UiIdle
    /\ lastRet = NoReturns
    /\ closeEv = NoCloseEv
    /\ popup = NoPopup

\* ---- the host: focus changes and the handlers of the async thread ----

\* the user focuses another view
SwitchActiveView(view) ==
    /\ view # active_view
    /\ active_view' = view
    /\ UNCHANGED << current_job_id, current_completions, configs, futures, cb,
                    ui, lastRet, closeEv, popup >>

\* the host takes what the handler returned and the GUI thread is free again
HandlerReturn ==
    /\ ui.pc = "ret"
    /\ ui' = UiIdle
    /\ lastRet' = NoReturns
    /\ closeEv' = NoCloseEv
    /\ popup' = [popup EXCEPT !.serving = NoPopupRequest]
    /\ UNCHANGED << current_job_id, current_completions, active_view, configs,
                    futures, cb >>

\* ViewConfigManager.load_for_view: the config it caches may lack a completer
load_for_view(cache, view, completer) ==
    [cache EXCEPT ![view] = IF completer THEN "ok" ELSE "nocompleter"]

on_activated_async(view, disabled, completer) ==
    /\ ~disabled
    /\ is_valid_view(view)
    /\ configs' = load_for_view(configs, view, completer)
    /\ UNCHANGED << current_job_id, current_completions, active_view, futures,
                    cb, ui, lastRet, closeEv, popup >>

on_post_save_async(view, completer) ==
    /\ is_valid_view(view)
    /\ configs' = load_for_view(configs, view, completer)
    /\ UNCHANGED << current_job_id, current_completions, active_view, futures,
                    cb, ui, lastRet, closeEv, popup >>

\* lines 114-121 and 129-136: what a handler that forwards to the completer's
\* error_vis does for a view
CompleterGuard(cache, view) ==
    IF ~is_valid_view(view) THEN "invalid_view"
    ELSE IF cache[view] = "none" THEN "no_config"
    ELSE IF cache[view] = "nocompleter" THEN "no_completer"
    ELSE "forwarded"

\* on_selection_modified (GUI thread): error_vis.show_popup_if_needed is
\* outside the state of the listener
on_selection_modified(view) ==
    /\ ui.pc = "idle"
    /\ CompleterGuard(configs, view) \in
           {"invalid_view", "no_config", "no_completer", "forwarded"}
    /\ UNCHANGED vars

\* on_modified_async (async thread): error_vis.clear is outside the state of
\* the listener
on_modified_async(view) ==
    /\ CompleterGuard(configs, view) \in
           {"invalid_view", "no_config", "no_completer", "forwarded"}
    /\ UNCHANGED vars

\* ---- on_query_completions (GUI thread) ----

\* a gate that lets the setting decide at a wrong trigger as well
GateResponse_SettingDecidesAlways(pos_status, hide) ==
    IF hide THEN HIDE_DEFAULT_COMPLETIONS ELSE SHOW_DEFAULT_COMPLETIONS

\* a gate that always shows the defaults where no completion is needed
GateResponse_NotNeededShows(pos_status, hide) ==
    IF pos_status = "WRONG_TRIGGER" THEN HIDE_DEFAULT_COMPLETIONS
    ELSE IF pos_status = "COMPLETION_NOT_NEEDED" THEN SHOW_DEFAULT_COMPLETIONS
    ELSE IF hide THEN HIDE_DEFAULT_COMPLETIONS
    ELSE SHOW_DEFAULT_COMPLETIONS

\* the show/hide answer of lines 244-256 and 266-270
GateResponse(pos_status, hide) ==
    IF pos_status = "WRONG_TRIGGER" THEN HIDE_DEFAULT_COMPLETIONS
    ELSE IF hide THEN HIDE_DEFAULT_COMPLETIONS
    ELSE SHOW_DEFAULT_COMPLETIONS

\* a handler that never answers from the stored completions
ExistingHit_Never(completions, pos_id, job_id) == FALSE

\* line 236: the stored completions answer this position
ExistingHit(completions, pos_id, job_id) ==
    completions # << >> /\ pos_id = job_id

Returns(ret, id, status, hide) ==
    [ret |-> ret, id |-> id, status |-> status, hide |-> hide]

UiId == get_identifier(CompletionRequest(ui.view, ui.pos))

\* lines 217-256: everything up to a return or to the decision to dispatch
QueryChecks(view, location, prefixLen, hide, pos_status) ==
    LET trigger_pos == location - prefixLen
        completion_request == CompletionRequest(view, trigger_pos)
        current_pos_id == get_identifier(completion_request)
        locals == [pc |-> "idle", view |-> view, pos |-> trigger_pos,
                   vc |-> IF is_valid_view(view) THEN configs[view]
                          ELSE "none",
                   fut |-> 0]
    IN
    /\ ui.pc = "idle"
    /\ IF ~is_valid_view(view)
       THEN /\ lastRet' = Returns(SHOW_DEFAULT_COMPLETIONS, None,
                                   "INVALID_VIEW", hide)
            /\ ui' = UiReturned
       ELSE IF configs[view] = "none"
       THEN /\ lastRet' = Returns(SHOW_DEFAULT_COMPLETIONS, current_pos_id,
                                   "NO_CONFIG", hide)
            /\ ui' = UiReturned
       ELSE IF ExistingHit(current_completions, current_pos_id, current_job_id)
       THEN /\ ui' = [locals EXCEPT !.pc = "q238"]
            /\ lastRet' = lastRet
       ELSE IF pos_status # "TRIGGERED"
       THEN /\ lastRet' = Returns(GateResponse(pos_status, hide),
                                   current_pos_id, pos_status, hide)
            /\ ui' = UiReturned
       ELSE /\ Len(futures) < MaxTasks
            /\ ui' = [locals EXCEPT !.pc = "q258"]
            /\ lastRet' = lastRet
    /\ UNCHANGED << current_job_id, current_completions, active_view, configs,
                    futures, cb, closeEv >>

\* on_query_completions called by the host for what the user typed
QueryBegin(view, location, prefixLen, hide, pos_status) ==
    /\ QueryChecks(view, location, prefixLen, hide, pos_status)
    /\ UNCHANGED popup

\* on_query_completions called by the host because show_auto_complete asked
\* it to re-open the popup of the view; the cursor is where it is by then
PopupQuery(request, location, prefixLen, hide, pos_status) ==
    /\ request \in popup.pending
    /\ QueryChecks(request.view, location, prefixLen, hide, pos_status)
    /\ popup' = [pending |-> popup.pending \ {request}, serving |-> request]

\* a handler that forgets the stored completions when it returns them
QueryReturnExisting_Clears(hide) ==
    /\ ui.pc = "q238"
    /\ lastRet' = Returns(format_completions(current_completions, hide),
                          UiId, "EXISTING", hide)
    /\ ui' = UiReturned
    /\ current_completions' = << >>
    /\ UNCHANGED << current_job_id, active_view, configs, futures, cb,
                    closeEv, popup >>

\* lines 237-240: "returning existing completions" reads the list again
QueryReturnExisting(hide) ==
    /\ ui.pc = "q238"
    /\ lastRet' = Returns(format_completions(current_completions, hide),
                          UiId, "EXISTING", hide)
    /\ ui' = UiReturned
    /\ UNCHANGED << current_job_id, current_completions, active_view, configs,
                    futures, cb, closeEv, popup >>

\* a newer request that cancels the tasks still waiting for a worker
Superseded_Cancels(fs, view) ==
    [t \in 1 .. Len(fs) |->
        IF fs[t].kind = "complete" /\ fs[t].state = "PENDING"
        THEN [fs[t] EXCEPT !.state = "CANCELLED", !.later = TRUE]
        ELSE fs[t]]

\* a completion task that had not resolved when a newer request was issued
\* on its view
Superseded(fs, view) ==
    [t \in 1 .. Len(fs) |->
        IF fs[t].kind = "complete" /\ fs[t].state # "FINISHED"
           /\ fs[t].view = view
        THEN [fs[t] EXCEPT !.later = TRUE] ELSE fs[t]]

\* line 258
QuerySetJob ==
    /\ ui.pc = "q258"
    /\ current_job_id' = UiId
    /\ futures' = Superseded(futures, ui.view)
    /\ ui' = [ui EXCEPT !.pc = "q261"]
    /\ UNCHANGED << current_completions, active_view, configs, cb, lastRet,
                    closeEv, popup >>

\* lines 261-262: thread_pool.submit(view_config.completer.complete, request)
SubmitComplete(fs, view, pos) == Append(fs, NewFuture("complete", view, pos))

\* one callback slot per future
ExtendCb(cbs, n) == [t \in 1 .. n |-> IF t <= Len(cbs) THEN cbs[t] ELSE NoCb]

\* lines 261-262: view_config.completer.complete raises AttributeError when
\* the cached config has no completer
QuerySubmit(hide) ==
    /\ ui.pc = "q261"
    /\ IF ui.vc = "nocompleter"
       THEN /\ lastRet' = Returns(RAISED, UiId, "TRIGGERED", hide)
            /\ ui' = UiReturned
            /\ UNCHANGED << futures, cb >>
       ELSE /\ futures' = SubmitComplete(futures, ui.view, ui.pos)
            /\ cb' = ExtendCb(cb, Len(futures'))
            /\ ui' = [ui EXCEPT !.pc = "q263", !.fut = Len(futures')]
            /\ lastRet' = lastRet
    /\ UNCHANGED << current_job_id, current_completions, active_view, configs,
                    closeEv, popup >>

\* Future.add_done_callback: a future that is already done runs the callback
\* at once in the calling thread, any other keeps it for the worker
add_done_callback(fs, t) ==
    IF FutureDone(fs[t]) THEN fs ELSE [fs EXCEPT ![t].hasCb = TRUE]

\* the activation of a callback that starts on thread thr
StartCb(cbs, t, thr, pc) == [cbs EXCEPT ![t].pc = pc, ![t].thr = thr]

\* a handler that registers the callback only once the task has resolved
QueryAddCallback_Waits(hide) ==
    /\ ui.pc = "q263"
    /\ FutureDone(futures[ui.fut])
    /\ futures' = add_done_callback(futures, ui.fut)
    /\ cb' = StartCb(cb, ui.fut, "ui", "check")
    /\ ui' = [ui EXCEPT !.pc = "q263cb"]
    /\ UNCHANGED << current_job_id, current_completions, active_view, configs,
                    lastRet, closeEv, popup >>

\* lines 263-270
QueryAddCallback(hide) ==
    /\ ui.pc = "q263"
    /\ futures' = add_done_callback(futures, ui.fut)
    /\ IF FutureDone(futures[ui.fut])
       THEN /\ cb' = StartCb(cb, ui.fut, "ui", "check")
            /\ ui' = [ui EXCEPT !.pc = "q263cb"]
            /\ lastRet' = lastRet
       ELSE /\ cb' = cb
            /\ ui' = UiReturned
            /\ lastRet' = Returns(GateResponse("TRIGGERED", hide), UiId,
                                  "TRIGGERED", hide)
    /\ UNCHANGED << current_job_id, current_completions, active_view, configs,
                    closeEv, popup >>

\* lines 266-270 after a callback that ran inside add_done_callback: an
\* exception of the callback either leaves the handler (the Python 3.3 of
\* Sublime Text 3 calls fn(self) unguarded) or is logged by the library
QueryAfterInlineCallback(hide, propagates) ==
    /\ ui.pc = "q263cb"
    /\ cb[ui.fut].pc = "done"
    /\ lastRet' = IF cb[ui.fut].res = "raised" /\ propagates
                  THEN Returns(RAISED, UiId, "TRIGGERED", hide)
                  ELSE Returns(GateResponse("TRIGGERED", hide), UiId,
                               "TRIGGERED", hide)
    /\ cb' = [cb EXCEPT ![ui.fut] = OverCb]
    /\ futures' = [futures EXCEPT ![ui.fut] = Collected(@)]
    /\ ui' = UiReturned
    /\ UNCHANGED << current_job_id, current_completions, active_view, configs,
                    closeEv, popup >>

\* ---- on_close (GUI thread) ----

\* an on_close that submits the teardown twice
SubmitClear_Twice(fs, view) ==
    Append(Append(fs, NewFuture("clear", view, 0)),
           NewFuture("clear", view, 0))

\* lines 161-162: thread_pool.submit(view_config_manager.clear_for_view, id)
SubmitClear(fs, view) == Append(fs, NewFuture("clear", view, 0))

\* lines 157-162
CloseBegin(view) ==
    /\ ui.pc = "idle"
    /\ Len(futures) < MaxTasks
    /\ IF is_valid_view(view)
       THEN /\ futures' = SubmitClear(futures, view)
            /\ cb' = ExtendCb(cb, Len(futures'))
            /\ ui' = [UiIdle EXCEPT !.pc = "c163", !.view = view,
                                    !.fut = Len(futures')]
       ELSE /\ ui' = UiReturned
            /\ UNCHANGED << futures, cb >>
    /\ closeEv' = [view |-> view, subs |-> Len(futures') - Len(futures),
                   cbs |-> 0]
    /\ UNCHANGED << current_job_id, current_completions, active_view, configs,
                    lastRet, popup >>

\* line 163
CloseAddCallback ==
    /\ ui.pc = "c163"
    /\ futures' = add_done_callback(futures, ui.fut)
    /\ IF FutureDone(futures[ui.fut])
       THEN /\ cb' = StartCb(cb, ui.fut, "ui", "cfg")
            /\ ui' = [ui EXCEPT !.pc = "c163cb"]
       ELSE /\ cb' = cb
            /\ ui' = UiReturned
    /\ closeEv' = [closeEv EXCEPT !.cbs = @ + 1]
    /\ UNCHANGED << current_job_id, current_completions, active_view, configs,
                    lastRet, popup >>

\* on_close ends once a callback that ran inside add_done_callback is over
CloseAfterInlineCallback ==
    /\ ui.pc = "c163cb"
    /\ cb[ui.fut].pc = "done"
    /\ cb' = [cb EXCEPT ![ui.fut] = OverCb]
    /\ futures' = [futures EXCEPT ![ui.fut] = Collected(@)]
    /\ ui' = UiReturned
    /\ UNCHANGED << current_job_id, current_completions, active_view, configs,
                    lastRet, closeEv, popup >>

\* ---- the thread pool ----

\* the request a completion task was submitted with
RequestOf(f) == CompletionRequest(f.view, f.pos)

\* a free worker takes the oldest pending work item
StartTask(t) ==
    /\ t \in 1 .. Len(futures)
    /\ futures[t].state = "PENDING"
    /\ \A u \in 1 .. (t - 1) : futures[u].state # "PENDING"
    /\ BusyWorkers < PoolWorkers
    /\ futures' = [futures EXCEPT ![t].state = "RUNNING"]
    /\ UNCHANGED << current_job_id, current_completions, active_view, configs,
                    cb, ui, lastRet, closeEv, popup >>

\* ViewConfigManager.clear_for_view drops the cached config of the view
clear_for_view(cache, view) == [cache EXCEPT ![view] = "none"]

\* the task returns or raises; the worker sets the future and then runs the
\* registered done-callback.  completer.complete returns (request,
\* completions), the request being absent when it gave up.
FinishTask(t, outcome, nonempty) ==
    /\ t \in 1 .. Len(futures)
    /\ futures[t].state = "RUNNING"
    /\ futures[t].kind = "clear" => outcome # "absent" /\ ~nonempty
    /\ outcome # "ok" => ~nonempty
    /\ futures' = [futures EXCEPT
            ![t].state = "FINISHED",
            ![t].outcome = outcome,
            ![t].comps = Completions(RequestOf(futures[t]), nonempty)]
    /\ configs' = IF futures[t].kind = "clear" /\ outcome = "ok"
                  THEN clear_for_view(configs, futures[t].view)
                  ELSE configs
    /\ cb' = IF futures[t].hasCb
             THEN StartCb(cb, t, "pool",
                          IF futures[t].kind = "clear" THEN "cfg" ELSE "check")
             ELSE cb
    /\ UNCHANGED << current_job_id, current_completions, active_view, ui,
                    lastRet, closeEv, popup >>

\* the done-callback returned to the worker, which is free again
WorkerDone(t) ==
    /\ t \in 1 .. Len(futures)
    /\ cb[t].pc = "done"
    /\ cb[t].thr = "pool"
    /\ cb' = [cb EXCEPT ![t] = OverCb]
    /\ futures' = [futures EXCEPT ![t] = Collected(@)]
    /\ UNCHANGED << current_job_id, current_completions, active_view, configs,
                    ui, lastRet, closeEv, popup >>

\* ---- config_removed (done-callback of the teardown) ----

\* lines 174-177
config_removed_outcome(f) ==
    IF FutureDone(f)
    THEN IF ResultRaises(f) THEN "raised" ELSE "logged_removed"
    ELSE IF FutureCancelled(f) THEN "logged_cancelled" ELSE "silent"

config_removed(t) ==
    /\ t \in 1 .. Len(futures)
    /\ cb[t].pc = "cfg"
    /\ cb' = [cb EXCEPT ![t].pc = "done",
                        ![t].res = config_removed_outcome(futures[t])]
    /\ UNCHANGED << current_job_id, current_completions, active_view, configs,
                    futures, ui, lastRet, closeEv, popup >>

\* ---- completion_finished (done-callback of a completion task) ----

\* a callback that does not compare the identifiers
JobIdMatches_NoCheck(request_id, job_id) == TRUE

\* line 193, negated
JobIdMatches(request_id, job_id) == request_id = job_id

\* lines 188-194
CompletionFinishedCheck(t) ==
    /\ t \in 1 .. Len(futures)
    /\ cb[t].pc = "check"
    /\ LET f == futures[t]
           res == IF ~FutureDone(f) THEN "notdone"
                  ELSE IF ResultRaises(f) THEN "raised"
                  ELSE IF f.outcome = "absent" THEN "absent"
                  ELSE IF ~JobIdMatches(get_identifier(RequestOf(f)),
                                        current_job_id) THEN "stale"
                  ELSE "none"
       IN cb' = [cb EXCEPT
                 ![t].pc = IF res = "none" THEN "view" ELSE "done",
                 ![t].res = res,
                 ![t].mismatch =
                     get_identifier(RequestOf(f)) # current_job_id]
    /\ UNCHANGED << current_job_id, current_completions, active_view, configs,
                    futures, ui, lastRet, closeEv, popup >>

\* line 195
CompletionFinishedActiveView(t) ==
    /\ t \in 1 .. Len(futures)
    /\ cb[t].pc = "view"
    /\ cb' = [cb EXCEPT ![t].pc = "store", ![t].av = active_view]
    /\ UNCHANGED << current_job_id, current_completions, active_view, configs,
                    futures, ui, lastRet, closeEv, popup >>

\* a callback that stores the completions whatever the active view
StoredCompletions_KeepsUnsuitable(request, view, completions) == completions

\* lines 196-200: what the callback assigns to current_completions
StoredCompletions(request, view, completions) ==
    IF is_suitable_for_view(request, view) THEN completions ELSE << >>

CompletionFinishedStore(t) ==
    /\ t \in 1 .. Len(futures)
    /\ cb[t].pc = "store"
    /\ LET f == futures[t]
           suitable == is_suitable_for_view(RequestOf(f), cb[t].av)
       IN /\ current_completions' =
                 StoredCompletions(RequestOf(f), cb[t].av, f.comps)
          /\ cb' = [cb EXCEPT
                 ![t].pc = "popup",
                 ![t].res = IF suitable THEN "stored" ELSE "ignored"]
    /\ UNCHANGED << current_job_id, active_view, configs, futures, ui, lastRet,
                    closeEv, popup >>

\* line 204: the request the host receives from the callback c of future f
show_auto_complete(f, c) ==
    [view |-> c.av, id |-> get_identifier(RequestOf(f)),
     stored |-> c.res = "stored" /\ f.comps # << >>]

\* lines 201-204: the list is read back from the shared attribute
CompletionFinishedPopup(t) ==
    /\ t \in 1 .. Len(futures)
    /\ cb[t].pc = "popup"
    /\ cb' = [cb EXCEPT ![t].pc = "done",
                        ![t].popup = (current_completions # << >>)]
    /\ popup' = IF current_completions # << >>
                THEN [popup EXCEPT !.pending =
                         @ \cup {show_auto_complete(futures[t], cb[t])}]
                ELSE popup
    /\ UNCHANGED << current_job_id, current_completions, active_view, configs,
                    futures, ui, lastRet, closeEv >>

\* ---- the system ----

Tasks == 1 .. MaxTasks

Next ==
    \/ \E v \in AllViews : SwitchActiveView(v)
    \/ HandlerReturn
    \/ \E v \in AllViews, d \in BOOLEAN, c \in BOOLEAN :
           on_activated_async(v, d, c)
    \/ \E v \in AllViews, c \in BOOLEAN : on_post_save_async(v, c)
    \/ \E v \in AllViews : on_selection_modified(v)
    \/ \E v \in AllViews : on_modified_async(v)
    \/ \E v \in AllViews, l \in Locations, p \in PrefixLens, h \in BOOLEAN,
          s \in PosStatus : QueryBegin(v, l, p, h, s)
    \/ \E r \in PopupRequests, l \in Locations, p \in PrefixLens,
          h \in BOOLEAN, s \in PosStatus : PopupQuery(r, l, p, h, s)
    \/ \E h \in BOOLEAN : QueryReturnExisting(h)
    \/ QuerySetJob
    \/ \E h \in BOOLEAN : QuerySubmit(h)
    \/ \E h \in BOOLEAN : QueryAddCallback(h)
    \/ \E h \in BOOLEAN, e \in BOOLEAN : QueryAfterInlineCallback(h, e)
    \/ \E v \in AllViews : CloseBegin(v)
    \/ CloseAddCallback
    \/ CloseAfterInlineCallback
    \/ \E t \in Tasks : StartTask(t)
    \/ \E t \in Tasks, o \in {"ok", "absent", "exception"}, n \in BOOLEAN :
           FinishTask(t, o, n)
    \/ \E t \in Tasks : WorkerDone(t)
    \/ \E t \in Tasks : config_removed(t)
    \/ \E t \in Tasks : CompletionFinishedCheck(t)
    \/ \E t \in Tasks : CompletionFinishedActiveView(t)
    \/ \E t \in Tasks : CompletionFinishedStore(t)
    \/ \E t \in Tasks : CompletionFinishedPopup(t)

Spec == Init /\ [][Next]_vars

\* ---- properties ----

Submitted == 1 .. Len(futures)

\* the request of future t is the current job and suits the active view
ValidNow(t) ==
    /\ get_identifier(RequestOf(futures[t])) = current_job_id
    /\ is_suitable_for_view(RequestOf(futures[t]), active_view)

\* this step is completion_finished of future t assigning its completions
\* to current_completions or asking the host for the popup
Applies(t) ==
    \/ cb[t].pc = "store" /\ cb'[t].res = "stored"
    \/ cb[t].pc = "popup" /\ cb'[t].popup

\* the callback of future t is past its assignment to current_completions
PastStore(t) == cb[t].pc \in {"popup", "done"}

\* C1: completion_finished stores a result or asks for the popup only in a
\* state where the request's identifier equals current_job_id and the request
\* is suitable for the active view
C1_AppliedOnlyWhenCurrentAndSuitable ==
    [][\A t \in Submitted : Applies(t) => ValidNow(t)]_vars

C3_ViewChangedDiscards ==
    \A t \in Submitted :
        /\ PastStore(t)
        /\ ~is_suitable_for_view(RequestOf(futures[t]), cb[t].av)
        => cb[t].res # "stored" /\ ~cb[t].popup

\* C4: a non-empty current_completions was computed for the request whose
\* identifier is current_job_id, and the completions on_query_completions
\* returns were computed for the identifier it was queried with
C4_CompletionsBelongToCurrentJob ==
    /\ current_completions # << >>
           => current_completions[1] = current_job_id
    /\ lastRet.ret.kind = "COMPLETIONS" /\ lastRet.ret.comps # << >>
           => lastRet.ret.comps[1] = lastRet.id

\* C5: a position the gate classifies as WRONG_TRIGGER is answered with
\* hide-defaults whatever the setting and the stored job are
C5_WrongTriggerHides ==
    lastRet.status = "WRONG_TRIGGER" => lastRet.ret = HIDE_DEFAULT_COMPLETIONS

C5_Witness ==
    /\ lastRet.status = "WRONG_TRIGGER"
    /\ ~lastRet.hide
    /\ current_completions # << >>
    /\ lastRet.ret = HIDE_DEFAULT_COMPLETIONS

\* C6: a position the gate classifies as COMPLETION_NOT_NEEDED is answered
\* with hide-defaults if hide_default_completions is set and with
\* show-defaults if it is not
C6_NotNeededFollowsSetting ==
    lastRet.status = "COMPLETION_NOT_NEEDED"
        => lastRet.ret = IF lastRet.hide THEN HIDE_DEFAULT_COMPLETIONS
                         ELSE SHOW_DEFAULT_COMPLETIONS

C6_Witness ==
    /\ lastRet.status = "COMPLETION_NOT_NEEDED"
    /\ lastRet.hide
    /\ lastRet.ret = HIDE_DEFAULT_COMPLETIONS

\* C7: a callback whose request was current and suitable asks for the popup
\* if and only if the completions its task returned are non-empty
C7_PopupIffNonEmpty ==
    \A t \in Submitted :
        cb[t].pc = "done" /\ cb[t].res = "stored"
            => (cb[t].popup <=> futures[t].comps # << >>)

\* C8: config_removed does not raise; it logs the removal for a teardown
\* that completed and the cancellation for one that was cancelled
C8_ConfigRemovedNeverRaises ==
    \A t \in Submitted :
        futures[t].kind = "clear" /\ cb[t].pc = "done"
            => /\ cb[t].res # "raised"
               /\ futures[t].outcome = "ok" => cb[t].res = "logged_removed"
               /\ FutureCancelled(futures[t])
                      => cb[t].res = "logged_cancelled"

\* C9 as stated: an on_close that has ended submitted one teardown task and
\* registered one done-callback
C9_EveryCloseSubmitsOnce ==
    ui.pc = "ret" /\ closeEv.view # NoView
        => closeEv.subs = 1 /\ closeEv.cbs = 1

\* the cached config of a view goes away in a step of a pool worker, never
\* in a step of the GUI thread
TeardownOffGuiThread ==
    \A v \in Views :
        configs[v] # "none" /\ configs'[v] = "none" => ui' = ui

\* C9 as amended: an on_close for a valid view submitted one teardown task
\* and registered one done-callback, an on_close for any other view none,
\* and the teardown runs off the GUI thread
C9_ValidCloseSubmitsOnce ==
    /\ [](ui.pc = "ret" /\ closeEv.view # NoView
            => IF is_valid_view(closeEv.view)
               THEN closeEv.subs = 1 /\ closeEv.cbs = 1
               ELSE closeEv.subs = 0 /\ closeEv.cbs = 0)
    /\ [][TeardownOffGuiThread]_vars

C9_Witness ==
    /\ ui.pc = "ret"
    /\ is_valid_view(closeEv.view)
    /\ closeEv.subs = 1 /\ closeEv.cbs = 1
    /\ \E t \in Submitted :
           futures[t].kind = "clear" /\ futures[t].state = "RUNNING"

\* C10: completion_finished on a future that was cancelled or that ended
\* with an exception returns without raising, writes nothing and asks for no
\* popup
C10_FailedTaskDiscardedQuietly ==
    \A t \in Submitted :
        /\ futures[t].kind = "complete"
        /\ ResultRaises(futures[t])
        /\ cb[t].pc = "done"
        => cb[t].res \notin {"raised", "stored", "ignored"} /\ ~cb[t].popup

\* C11: with a cached config that has no completer, on_selection_modified and
\* on_modified_async return early, and an on_query_completions never gets as
\* far as line 258: it neither writes current_job_id, nor submits a task, nor
\* raises at line 262
C11_NoCompleterReturnsEarly ==
    /\ \A v \in Views :
           configs[v] = "nocompleter"
               => CompleterGuard(configs, v) = "no_completer"
    /\ ui.vc = "nocompleter" => ui.pc \in {"q238", "q258"}

\* a step of the GUI thread inside an event handler, the done-callbacks it
\* runs inside add_done_callback included
HandlerStep ==
    \/ \E h \in BOOLEAN : QueryReturnExisting(h)
    \/ QuerySetJob
    \/ \E h \in BOOLEAN : QuerySubmit(h)
    \/ \E h \in BOOLEAN : QueryAddCallback(h)
    \/ \E h \in BOOLEAN, e \in BOOLEAN : QueryAfterInlineCallback(h, e)
    \/ CloseAddCallback
    \/ CloseAfterInlineCallback
    \/ \E t \in Tasks :
           /\ t \in 1 .. Len(futures)
           /\ cb[t].thr = "ui"
           /\ \/ config_removed(t)
              \/ CompletionFinishedCheck(t)
              \/ CompletionFinishedActiveView(t)
              \/ CompletionFinishedStore(t)
              \/ CompletionFinishedPopup(t)

\* C12: an event handler never waits for a background task: whatever the
\* state of the tasks, the GUI thread inside a handler can take its next step
C12_HandlersNeverWait ==
    ui.pc \notin {"idle", "ret"} => ENABLED HandlerStep

\* on_query_completions has returned its hint on TRIGGERED while the task it
\* submitted is still pending or running
C12_Witness ==
    /\ ui.pc = "ret"
    /\ lastRet.status = "TRIGGERED"
    /\ lastRet.ret \in {SHOW_DEFAULT_COMPLETIONS, HIDE_DEFAULT_COMPLETIONS}
    /\ Len(futures) > 0
    /\ futures[Len(futures)].kind = "complete"
    /\ get_identifier(RequestOf(futures[Len(futures)])) = lastRet.id
    /\ futures[Len(futures)].state \in {"PENDING", "RUNNING"}

\* C13: an on_query_completions that came to TRIGGERED with a cached view
\* config has set current_job_id to the identifier of its request before it
\* submits, submits one completion task for that request, and returns
\* hide-defaults when hide_default_completions is set and show-defaults
\* otherwise
C13_TriggeredDispatchesAndAnswers ==
    /\ ui.pc \in {"q261", "q263", "q263cb"} => current_job_id = UiId
    /\ ui.pc \in {"q263", "q263cb"}
           => /\ ui.fut = Len(futures)
              /\ get_identifier(RequestOf(futures[ui.fut])) = UiId
    /\ lastRet.status = "TRIGGERED"
           => /\ lastRet.ret = IF lastRet.hide THEN HIDE_DEFAULT_COMPLETIONS
                               ELSE SHOW_DEFAULT_COMPLETIONS
              /\ current_job_id = lastRet.id
              /\ Len(futures) > 0
              /\ get_identifier(RequestOf(futures[Len(futures)])) = lastRet.id

\* this step is on_query_completions ending, or going to end, on an invalid
\* view, a missing view config, a cached hit, WRONG_TRIGGER or
\* COMPLETION_NOT_NEEDED
EndsWithoutDispatch ==
    \/ ui.pc = "idle" /\ ui'.pc = "q238"
    \/ /\ ui.pc \in {"idle", "q238"}
       /\ ui'.pc = "ret"
       /\ lastRet'.status \in {"INVALID_VIEW", "NO_CONFIG", "EXISTING",
                               "WRONG_TRIGGER", "COMPLETION_NOT_NEEDED"}

\* C14: an on_query_completions that ends on an invalid view, a missing view
\* config, a cached hit, WRONG_TRIGGER or COMPLETION_NOT_NEEDED changes
\* neither current_job_id nor current_completions and submits no task, and
\* on an invalid view or a missing view config it returns show-defaults
C14_OnlyTriggeredDispatches ==
    /\ [](lastRet.status \in {"INVALID_VIEW", "NO_CONFIG"}
            => lastRet.ret = SHOW_DEFAULT_COMPLETIONS)
    /\ [][EndsWithoutDispatch
            => UNCHANGED << current_job_id, current_completions, futures >>]_vars

C14_Witness ==
    /\ ui.pc = "ret"
    /\ lastRet.status = "EXISTING"
    /\ lastRet.ret.kind = "COMPLETIONS"
    /\ lastRet.id = current_job_id
    /\ current_completions # << >>

\* this step is completion_finished of future t discarding its result for
\* one of the reasons
Discards(t, reasons) ==
    /\ t \in DOMAIN cb /\ t \in DOMAIN cb'
    /\ cb'[t].res # cb[t].res
    /\ cb'[t].res \in reasons

\* C15: a completion_finished that discards its result, the request being
\* absent, its identifier differing from current_job_id or the request not
\* suiting the active view, changes neither current_job_id nor
\* current_completions
C15_DiscardKeepsState ==
    [][\A t \in Tasks :
          Discards(t, {"absent", "stale", "ignored"})
              => UNCHANGED << current_job_id, current_completions >>]_vars

\* C15 as amended: a discard for an absent request or a differing identifier
\* changes neither attribute; a discard for an unsuitable active view keeps
\* current_job_id and sets current_completions to the empty list
C15_DiscardEffects ==
    [][\A t \in Tasks :
          /\ Discards(t, {"absent", "stale"})
                => UNCHANGED << current_job_id, current_completions >>
          /\ Discards(t, {"ignored"})
                => /\ current_job_id' = current_job_id
                   /\ current_completions' = << >>]_vars

C15_Witness ==
    \E t \in Submitted :
        /\ cb[t].pc = "popup"
        /\ cb[t].res = "ignored"
        /\ futures[t].comps # << >>
        /\ current_completions = << >>

\* C18: current_job_id is written by on_query_completions on TRIGGERED only,
\* current_completions by completion_finished only, and current_job_id does
\* not change while a completion_finished is between its identifier check
\* and its write to current_completions
C18_SingleWriterNoInterleaving ==
    [][/\ current_job_id' # current_job_id
            => ui.pc = "q258" /\ ui'.pc = "q261"
       /\ current_completions' # current_completions
            => \E t \in Submitted : cb[t].pc = "store" /\ cb'[t].pc = "popup"
       /\ current_job_id' # current_job_id
            => \A t \in Submitted : cb[t].pc \notin {"view", "store"}]_vars

\* the on_query_completions in progress was called to re-open the popup for
\* a callback that had stored a non-empty list, and has that callback's
\* identifier
ServesStored(id) == popup.serving.stored /\ popup.serving.id = id

\* C16: the on_query_completions that results from a callback having stored
\* a non-empty list and asked for the popup, and that has the same
\* identifier, goes to "returning existing completions": it returns
\* non-empty stored completions formatted with the hide flag and never comes
\* to write current_job_id or to submit a task
C16_PopupQueryReturnsStored ==
    /\ ui.pc \notin {"idle", "ret"} /\ ServesStored(UiId) => ui.pc = "q238"
    /\ ui.pc = "ret" /\ ServesStored(lastRet.id)
           => /\ lastRet.status = "EXISTING"
              /\ lastRet.ret.kind = "COMPLETIONS"
              /\ lastRet.ret.comps # << >>
              /\ lastRet.ret.hide = lastRet.hide

\* the identifier of the on_query_completions that this step begins
BegunId == IF ui'.pc = "ret" THEN lastRet'.id ELSE << ui'.view, ui'.pos >>

\* this step begins the on_query_completions that re-opens the popup, with
\* the identifier of the callback that asked, on a view whose config is
\* cached, while current_completions is non-empty and current_job_id is
\* that identifier
PopupQueryFindsStored ==
    /\ ui.pc = "idle" /\ ui'.pc # "idle"
    /\ popup'.serving # NoPopupRequest
    /\ BegunId = popup'.serving.id
    /\ is_valid_view(popup'.serving.view)
    /\ configs[popup'.serving.view] # "none"
    /\ current_completions # << >>
    /\ current_job_id = popup'.serving.id

\* C16 as amended: an on_query_completions that re-opens the popup with the
\* identifier of the callback that asked, and finds the view config cached,
\* current_completions non-empty and current_job_id equal to that
\* identifier, goes to "returning existing completions"; from there it
\* returns current_completions formatted with the hide flag, writes nothing
\* and submits no task; a callback asks for the popup at most once, a submit
\* adds one task
C16_PopupQueryHitReturnsStored ==
    /\ [][PopupQueryFindsStored => ui'.pc = "q238"]_vars
    /\ [][ui.pc = "q238" /\ ui'.pc # "q238"
            => /\ ui'.pc = "ret"
               /\ lastRet'.status = "EXISTING"
               /\ lastRet'.ret =
                      format_completions(current_completions, lastRet'.hide)
               /\ UNCHANGED << current_job_id, current_completions,
                               futures >>]_vars
    /\ [][popup'.pending # popup.pending /\ popup'.serving = popup.serving
            => \E t \in Submitted :
                   /\ cb[t].pc = "popup" /\ cb'[t].pc = "done"
                   /\ popup'.pending =
                          popup.pending
                              \cup {show_auto_complete(futures[t], cb[t])}]_vars
    /\ [][Len(futures') <= Len(futures) + 1]_vars

C16_Witness ==
    /\ ui.pc = "ret"
    /\ ServesStored(lastRet.id)
    /\ lastRet.status = "EXISTING"
    /\ lastRet.ret.comps # << >>
    /\ lastRet.id = current_job_id

\* a step of a pool worker: taking a task, ending it, running its
\* done-callback, being free again
PoolStep ==
    \E t \in Tasks :
        \/ StartTask(t)
        \/ \E o \in {"ok", "absent", "exception"}, n \in BOOLEAN :
               FinishTask(t, o, n)
        \/ WorkerDone(t)
        \/ /\ t \in 1 .. Len(futures)
           /\ cb[t].thr = "pool"
           /\ \/ config_removed(t)
              \/ CompletionFinishedCheck(t)
              \/ CompletionFinishedActiveView(t)
              \/ CompletionFinishedStore(t)
              \/ CompletionFinishedPopup(t)

\* the steps of the listener with the inputs that bear on the tasks: the
\* hide_default_completions setting only selects the hint a handler returns
\* and is left unset, and the handlers that leave the state alone
\* (on_selection_modified, on_modified_async, a disabled on_activated_async)
\* are stuttering steps
FairNext ==
    \/ \E v \in AllViews : SwitchActiveView(v)
    \/ HandlerReturn
    \/ \E v \in AllViews, c \in BOOLEAN : on_activated_async(v, FALSE, c)
    \/ \E v \in AllViews, c \in BOOLEAN : on_post_save_async(v, c)
    \/ \E v \in AllViews, l \in Locations, p \in PrefixLens, s \in PosStatus :
           QueryBegin(v, l, p, FALSE, s)
    \/ \E r \in PopupRequests, l \in Locations, p \in PrefixLens,
          s \in PosStatus : PopupQuery(r, l, p, FALSE, s)
    \/ QueryReturnExisting(FALSE)
    \/ QuerySetJob
    \/ QuerySubmit(FALSE)
    \/ QueryAddCallback(FALSE)
    \/ \E e \in BOOLEAN : QueryAfterInlineCallback(FALSE, e)
    \/ \E v \in AllViews : CloseBegin(v)
    \/ CloseAddCallback
    \/ CloseAfterInlineCallback
    \/ \E t \in Tasks : StartTask(t)
    \/ \E t \in Tasks, o \in {"ok", "absent", "exception"}, n \in BOOLEAN :
           FinishTask(t, o, n)
    \/ \E t \in Tasks : WorkerDone(t)
    \/ \E t \in Tasks : config_removed(t)
    \/ \E t \in Tasks : CompletionFinishedCheck(t)
    \/ \E t \in Tasks : CompletionFinishedActiveView(t)
    \/ \E t \in Tasks : CompletionFinishedStore(t)
    \/ \E t \in Tasks : CompletionFinishedPopup(t)

\* the listener under fair scheduling: a pool worker that can step does so,
\* completer.complete and clear_for_view end, and the GUI thread goes on with
\* the handler it is in
FairSpec ==
    Init /\ [][FairNext]_vars /\ WF_vars(PoolStep) /\ WF_vars(HandlerStep)

\* no submitted task is cancelled, and a completion task is given up only
\* once its done-callback has been invoked and is over
NeverPreempted ==
    /\ [](\A t \in Submitted : ~FutureCancelled(futures[t]))
    /\ [][\A t \in Submitted :
             futures[t].kind = "complete"
                 => /\ t \in DOMAIN futures'
                    /\ futures'[t].kind = "complete" \/ cb'[t].pc = "over"]_vars

\* completion_finished is invoked at most once for a task
CalledBackAtMostOnce ==
    [][\A t \in Submitted :
          /\ cb'[t].pc = "check" /\ cb[t].pc # "check" => cb[t].pc = "none"
          /\ cb[t].pc = "over" => cb'[t].pc = "over"]_vars

\* the completion tasks whose completion_finished is not over yet
Outstanding == {t \in Submitted : futures[t].kind = "complete"}

\* every submitted completion task gets its completion_finished invoked, and
\* that invocation ends: a task is outstanding from its submission until its
\* callback is over, and again and again no task is outstanding
EveryTaskCalledBack == []<>(Outstanding = {})

====
